---- MODULE Spec2Model ----
(***************************************************************************)
(* Model of kurios.py: a minimal entity/component/system runtime.          *)
(* The Coordinator, its IDGenerator, its ComponentStorages and its         *)
(* OnChangeSystems are modelled as one state machine; every public         *)
(* operation is one action that performs the whole call, including the     *)
(* state it leaves behind when the call raises.                            *)
(***************************************************************************)
EXTENDS Integers, Sequences, FiniteSets, TLC

\* ------------------------------------------------------------------ bounds
\* ids handed out by the counter, and the ids callers pass, are below MaxCounter
MaxCounter == 2
\* systems registered
MaxSystems == 2
\* calls made on the coordinator and its systems in one run
MaxSteps == 7
\* rules in one signature mask whose verdict is examined on its own
MaxRules == 2

\* ------------------------------------------------------- values and inputs
ComponentTypes == {"number", "char", "ascii"}
EntityIDs == 0 .. (MaxCounter - 1)
NoID == -1

RangeOf(s) == {s[i] : i \in DOMAIN s}
Count(s, x) == Cardinality({i \in DOMAIN s : s[i] = x})

\* Component(comp_type, data)
Component(comp_type, data) == [comp_type |-> comp_type, data |-> data]

\* ----------------------------------------------------------- str() / ord()
Digits == <<"0", "1", "2", "3", "4", "5", "6", "7", "8", "9">>

RECURSIVE str(_)
str(n) == IF n < 10 THEN Digits[n + 1] ELSE str(n \div 10) \o Digits[(n % 10) + 1]

\* ord() of a one-character string of the model's alphabet; 0 stands for the
\* TypeError python raises on any other argument.
ord(s) == IF \E i \in DOMAIN Digits : Digits[i] = s
          THEN 47 + (CHOOSE i \in DOMAIN Digits : Digits[i] = s)
          ELSE 0

\* the components a caller attaches
CallerComponents ==
    {Component("number", 3), Component("char", "3")}

\* ------------------------------------------------------------- mask rules
create_min_rule(args) == [kind |-> "min", arg_set |-> args]
create_bl_rule(args) == [kind |-> "bl", arg_set |-> args]
create_wl_rule(args) == [kind |-> "wl", arg_set |-> args]

\* the whitelist rule looping over its own set instead of the signature
allows_wl_over_arg_set(rule, signature) ==
    CASE rule.kind = "min" -> \A val \in rule.arg_set : val \in signature
      [] rule.kind = "bl" -> \A val \in signature : val \notin rule.arg_set
      [] rule.kind = "wl" -> \A val \in rule.arg_set : val \in signature

\* rule.allows(signature) of the rule a constructor returns: the loop of the
\* closure, over arg_set for min and over the signature for bl and wl
allows(rule, signature) ==
    CASE rule.kind = "min" -> \A val \in rule.arg_set : val \in signature
      [] rule.kind = "bl" -> \A val \in signature : val \notin rule.arg_set
      [] rule.kind = "wl" -> \A val \in signature : val \in rule.arg_set

build_signature_mask(allows_functions) == allows_functions

\* SignatureMask.contains returning after the first rule
contains_first_rule(mask_rules, signature) ==
    IF mask_rules = <<>> THEN TRUE ELSE allows(Head(mask_rules), signature)

RECURSIVE contains(_, _)
contains(mask_rules, signature) ==
    IF mask_rules = <<>> THEN TRUE
    ELSE IF ~allows(Head(mask_rules), signature) THEN FALSE
    ELSE contains(Tail(mask_rules), signature)

\* --------------------------------------------------------------- systems
OnChangeSystem(signature_mask, workflow) ==
    [signature_mask |-> signature_mask, workflow |-> workflow, que |-> <<>>]

num_to_char_system ==
    OnChangeSystem(build_signature_mask(
        <<create_min_rule({"number"}), create_bl_rule({"char"})>>), "num_to_char")

char_to_ascii_system ==
    OnChangeSystem(build_signature_mask(
        <<create_min_rule({"char"}), create_bl_rule({"ascii"})>>), "char_to_ascii")

\* a system whose mask keeps matching after its own workflow has run
renumber_system ==
    OnChangeSystem(build_signature_mask(<<create_min_rule({"number"})>>),
                   "num_to_char")

\* a system whose mask has no required tag: an empty signature satisfies it
unconverted_system ==
    OnChangeSystem(build_signature_mask(<<create_bl_rule({"char"})>>),
                   "num_to_char")

SystemInputs ==
    {num_to_char_system, char_to_ascii_system, renumber_system,
     unconverted_system}

\* ----------------------------------------------------------- IDGenerator
\* IDGenerator.get popping the newest dead id (pop() for popleft())
IDGenerator_get_newest(c) ==
    IF c.dead_ids # <<>>
    THEN [c |-> [c EXCEPT !.dead_ids = SubSeq(@, 1, Len(@) - 1)],
          ret |-> c.dead_ids[Len(c.dead_ids)]]
    ELSE [c |-> [c EXCEPT !.counter = @ + 1], ret |-> c.counter]

\* a coordinator value c is the record of the Coordinator's fields, with the
\* generator's two fields inlined
IDGenerator_get(c) ==
    IF c.dead_ids # <<>>
    THEN [c |-> [c EXCEPT !.dead_ids = Tail(@)], ret |-> Head(c.dead_ids)]
    ELSE [c |-> [c EXCEPT !.counter = @ + 1], ret |-> c.counter]

IDGenerator_add_dead(c, dead_id) == [c EXCEPT !.dead_ids = Append(@, dead_id)]

\* ------------------------------------------------------ ComponentStorage
\* database: a function from the entity ids that have an entry to their lists
EmptyDatabase == [x \in {} |-> <<>>]

ComponentStorage(comp_type) == [comp_type |-> comp_type, database |-> EmptyDatabase]

\* defaultdict(list).__getitem__: a missing key is inserted with an empty list
Touch(database, index) ==
    IF index \in DOMAIN database THEN database
    ELSE [x \in DOMAIN database \cup {index} |->
            IF x = index THEN <<>> ELSE database[x]]

ComponentStorage_getitem(storage, index) ==
    [storage |-> [storage EXCEPT !.database = Touch(@, index)],
     ret |-> Touch(storage.database, index)[index]]

ComponentStorage_add(storage, entity_id, component) ==
    IF component.comp_type # storage.comp_type
    THEN [storage |-> storage, err |-> "ValueError"]
    ELSE [storage |-> [storage EXCEPT !.database =
                          [Touch(@, entity_id) EXCEPT ![entity_id] =
                              Append(@, component)]],
          err |-> "none"]

ComponentStorage_remove_entity(storage, entity_id) ==
    IF entity_id \notin DOMAIN storage.database
    THEN [storage |-> storage, err |-> "KeyError"]
    ELSE [storage |-> [storage EXCEPT !.database =
                          [x \in DOMAIN @ \ {entity_id} |-> @[x]]],
          err |-> "none"]

\* ------------------------------------------------------------ Coordinator
\* component_storages is a dict: a sequence of storages in insertion order,
\* at most one per comp_type
HasStorage(component_storages, comp_type) ==
    \E k \in DOMAIN component_storages : component_storages[k].comp_type = comp_type

StorageIndex(component_storages, comp_type) ==
    CHOOSE k \in DOMAIN component_storages : component_storages[k].comp_type = comp_type

Coordinator_init ==
    [systems |-> <<>>, entities |-> [x \in {} |-> {}], counter |-> 0,
     dead_ids |-> <<>>, component_storages |-> <<>>]

Coordinator_add_entity(c) ==
    LET g == IDGenerator_get(c)
    IN [c |-> [g.c EXCEPT !.entities =
                  [x \in DOMAIN @ \cup {g.ret} |-> IF x = g.ret THEN {} ELSE @[x]]],
        ret |-> g.ret]

\* the loop over component_storages.items(), from position k on; it stops at
\* the first storage that raises
RECURSIVE PurgeFrom(_, _, _)
PurgeFrom(component_storages, k, entity_id) ==
    IF k > Len(component_storages)
    THEN [component_storages |-> component_storages, err |-> "none"]
    ELSE LET r == ComponentStorage_remove_entity(component_storages[k], entity_id)
         IN IF r.err # "none"
            THEN [component_storages |-> component_storages, err |-> r.err]
            ELSE PurgeFrom([component_storages EXCEPT ![k] = r.storage],
                           k + 1, entity_id)

Coordinator_remove_entity(c, entity_id) ==
    LET c1 == IDGenerator_add_dead(c, entity_id)
        p == PurgeFrom(c1.component_storages, 1, entity_id)
        c2 == [c1 EXCEPT !.component_storages = p.component_storages]
    IN IF p.err # "none" THEN [c |-> c2, err |-> p.err]
       ELSE IF entity_id \notin DOMAIN c2.entities
       THEN [c |-> c2, err |-> "KeyError"]
       ELSE [c |-> [c2 EXCEPT !.entities =
                       [x \in DOMAIN @ \ {entity_id} |-> @[x]]],
             err |-> "none"]

Coordinator_get_entity_signature(c, entity_id) ==
    IF entity_id \in DOMAIN c.entities
    THEN [ret |-> c.entities[entity_id], err |-> "none"]
    ELSE [ret |-> {}, err |-> "KeyError"]

Coordinator_add_system(c, system) == [c EXCEPT !.systems = Append(@, system)]

OnChangeSystem_on_entity_changed(system, c, entity_id) ==
    IF contains(system.signature_mask,
                Coordinator_get_entity_signature(c, entity_id).ret)
    THEN [system EXCEPT !.que = Append(@, entity_id)]
    ELSE system

\* Coordinator.add_component notifying the systems before the type tag has
\* been added to the signature
Coordinator_add_component_notify_first(c, entity_id, component) ==
    LET comp_type == component.comp_type
        cs1 == IF HasStorage(c.component_storages, comp_type)
               THEN c.component_storages
               ELSE Append(c.component_storages, ComponentStorage(comp_type))
        k == StorageIndex(cs1, comp_type)
        a == ComponentStorage_add(cs1[k], entity_id, component)
        c1 == [c EXCEPT !.component_storages = [cs1 EXCEPT ![k] = a.storage]]
    IN IF a.err # "none" THEN [c |-> c1, err |-> a.err]
       ELSE IF entity_id \notin DOMAIN c1.entities
       THEN [c |-> c1, err |-> "KeyError"]
       ELSE LET c2 == [c1 EXCEPT !.systems =
                          [i \in DOMAIN @ |->
                              OnChangeSystem_on_entity_changed(@[i], c1, entity_id)]]
            IN [c |-> [c2 EXCEPT !.entities[entity_id] = @ \cup {comp_type}],
                err |-> "none"]

Coordinator_add_component(c, entity_id, component) ==
    LET comp_type == component.comp_type
        cs1 == IF HasStorage(c.component_storages, comp_type)
               THEN c.component_storages
               ELSE Append(c.component_storages, ComponentStorage(comp_type))
        k == StorageIndex(cs1, comp_type)
        a == ComponentStorage_add(cs1[k], entity_id, component)
        c1 == [c EXCEPT !.component_storages = [cs1 EXCEPT ![k] = a.storage]]
    IN IF a.err # "none" THEN [c |-> c1, err |-> a.err]
       ELSE IF entity_id \notin DOMAIN c1.entities
       THEN [c |-> c1, err |-> "KeyError"]
       ELSE LET c2 == [c1 EXCEPT !.entities[entity_id] = @ \cup {comp_type}]
            IN [c |-> [c2 EXCEPT !.systems =
                          [i \in DOMAIN @ |->
                              OnChangeSystem_on_entity_changed(@[i], c2, entity_id)]],
                err |-> "none"]

Coordinator_get_components(c, entity_id, comp_type) ==
    IF ~HasStorage(c.component_storages, comp_type)
    THEN [c |-> c, ret |-> <<>>, err |-> "KeyError"]
    ELSE LET k == StorageIndex(c.component_storages, comp_type)
             g == ComponentStorage_getitem(c.component_storages[k], entity_id)
         IN [c |-> [c EXCEPT !.component_storages[k] = g.storage],
             ret |-> g.ret, err |-> "none"]

\* ------------------------------------------------------------- workflows
\* num_to_char and char_to_ascii read the first component of one type of the
\* processed entity and attach the converted value to the module-level
\* variable `entity` (NoID while that name is unbound)
WorkflowSource(workflow) == IF workflow = "num_to_char" THEN "number" ELSE "char"
WorkflowTarget(workflow) == IF workflow = "num_to_char" THEN "char" ELSE "ascii"
WorkflowConvert(workflow, data) ==
    IF workflow = "num_to_char" THEN str(data) ELSE ord(data)

Workflow(workflow, c, entity_id, entity_global) ==
    LET g == Coordinator_get_components(c, entity_id, WorkflowSource(workflow))
    IN IF g.err # "none" THEN [c |-> g.c, err |-> g.err]
       ELSE IF g.ret = <<>> THEN [c |-> g.c, err |-> "IndexError"]
       ELSE IF entity_global = NoID THEN [c |-> g.c, err |-> "NameError"]
       ELSE IF workflow = "char_to_ascii" /\ ord(g.ret[1].data) = 0
       THEN [c |-> g.c, err |-> "TypeError"]
       ELSE Coordinator_add_component(g.c, entity_global,
                Component(WorkflowTarget(workflow),
                          WorkflowConvert(workflow, g.ret[1].data)))

\* ------------------------------------------------- OnChangeSystem.update
\* the popleft loop: pops entries until one satisfies the mask, the queue is
\* empty, or get_entity_signature raises on an id that is not in entities
\* the loop reading the front of the queue and removing it only once its
\* signature has been looked up
RECURSIVE PopLoop_pop_after_lookup(_, _, _, _)
PopLoop_pop_after_lookup(que, signature_mask, c, skipped) ==
    IF que = <<>> THEN [que |-> que, st |-> "empty", id |-> NoID, skipped |-> skipped]
    ELSE LET entity_id == Head(que)
             s == Coordinator_get_entity_signature(c, entity_id)
         IN IF s.err # "none"
            THEN [que |-> que, st |-> s.err, id |-> entity_id,
                  skipped |-> skipped]
            ELSE IF contains(signature_mask, s.ret)
            THEN [que |-> Tail(que), st |-> "found", id |-> entity_id,
                  skipped |-> skipped]
            ELSE PopLoop_pop_after_lookup(Tail(que), signature_mask, c,
                                          Append(skipped, entity_id))

RECURSIVE PopLoop(_, _, _, _)
PopLoop(que, signature_mask, c, skipped) ==
    IF que = <<>> THEN [que |-> que, st |-> "empty", id |-> NoID, skipped |-> skipped]
    ELSE LET entity_id == Head(que)
             s == Coordinator_get_entity_signature(c, entity_id)
         IN IF s.err # "none"
            THEN [que |-> Tail(que), st |-> s.err, id |-> entity_id,
                  skipped |-> skipped]
            ELSE IF contains(signature_mask, s.ret)
            THEN [que |-> Tail(que), st |-> "found", id |-> entity_id,
                  skipped |-> skipped]
            ELSE PopLoop(Tail(que), signature_mask, c, Append(skipped, entity_id))

\* OnChangeSystem.update with the body looping once more after the workflow
\* has returned: a second matching entry is processed in the same call
OnChangeSystem_update_again(c, i, entity_global) ==
    LET system == c.systems[i]
        p == PopLoop(system.que, system.signature_mask, c, <<>>)
        c1 == [c EXCEPT !.systems[i].que = p.que]
    IN IF p.st = "empty"
       THEN [c |-> c1, err |-> "none", calls |-> <<>>, skipped |-> p.skipped]
       ELSE IF p.st # "found"
       THEN [c |-> c1, err |-> p.st, calls |-> <<>>, skipped |-> p.skipped]
       ELSE LET w == Workflow(system.workflow, c1, p.id, entity_global)
                p2 == PopLoop(w.c.systems[i].que, system.signature_mask, w.c, <<>>)
                c2 == [w.c EXCEPT !.systems[i].que = p2.que]
                w2 == Workflow(system.workflow, c2, p2.id, entity_global)
            IN IF w.err # "none" \/ p2.st # "found"
               THEN [c |-> w.c, err |-> w.err, calls |-> <<<<i, p.id>>>>,
                     skipped |-> p.skipped]
               ELSE [c |-> w2.c, err |-> w2.err,
                     calls |-> <<<<i, p.id>>, <<i, p2.id>>>>,
                     skipped |-> p.skipped \o p2.skipped]

\* calls: the workflow invocations made, as <<system index, entity id>>
OnChangeSystem_update(c, i, entity_global) ==
    LET system == c.systems[i]
        p == PopLoop(system.que, system.signature_mask, c, <<>>)
        c1 == [c EXCEPT !.systems[i].que = p.que]
    IN IF p.st = "empty"
       THEN [c |-> c1, err |-> "none", calls |-> <<>>, skipped |-> p.skipped]
       ELSE IF p.st # "found"
       THEN [c |-> c1, err |-> p.st, calls |-> <<>>, skipped |-> p.skipped]
       ELSE LET w == Workflow(system.workflow, c1, p.id, entity_global)
            IN [c |-> w.c, err |-> w.err, calls |-> <<<<i, p.id>>>>,
                skipped |-> p.skipped]

\* the loop over self.systems, from position i on; an exception ends it
RECURSIVE UpdateFrom(_, _, _, _, _)
UpdateFrom(c, i, entity_global, calls, ran) ==
    IF i > Len(c.systems) THEN [c |-> c, err |-> "none", calls |-> calls, ran |-> ran]
    ELSE LET u == OnChangeSystem_update(c, i, entity_global)
         IN IF u.err # "none"
            THEN [c |-> u.c, err |-> u.err, calls |-> calls \o u.calls,
                  ran |-> Append(ran, i)]
            ELSE UpdateFrom(u.c, i + 1, entity_global, calls \o u.calls,
                            Append(ran, i))

\* Coordinator.update iterating over reversed(self.systems)
RECURSIVE UpdateDownFrom(_, _, _, _, _)
UpdateDownFrom(c, i, entity_global, calls, ran) ==
    IF i < 1 THEN [c |-> c, err |-> "none", calls |-> calls, ran |-> ran]
    ELSE LET u == OnChangeSystem_update(c, i, entity_global)
         IN IF u.err # "none"
            THEN [c |-> u.c, err |-> u.err, calls |-> calls \o u.calls,
                  ran |-> Append(ran, i)]
            ELSE UpdateDownFrom(u.c, i - 1, entity_global, calls \o u.calls,
                                Append(ran, i))

Coordinator_update_reversed(c, entity_global) ==
    UpdateDownFrom(c, Len(c.systems), entity_global, <<>>, <<>>)

Coordinator_update(c, entity_global) == UpdateFrom(c, 1, entity_global, <<>>, <<>>)

\* ------------------------------------------------------------------ state
VARIABLES
    systems,             \* Coordinator.systems
    entities,            \* Coordinator.entities: live id -> signature
    counter,             \* IDGenerator.counter
    dead_ids,            \* IDGenerator.dead_ids
    component_storages,  \* Coordinator.component_storages
    entity,              \* the module-level variable the workflows attach to
    last,                \* the last call: its arguments, result and exception
    issued,              \* ids returned by get() with no add_dead since
    script,              \* progress through the __main__ scenario, -1 if left
    steps,               \* calls made so far
    probe                \* the last call made on a rule or a mask on its own

vars == <<systems, entities, counter, dead_ids, component_storages, entity,
          last, issued, script, steps, probe>>

Coord ==
    [systems |-> systems, entities |-> entities, counter |-> counter,
     dead_ids |-> dead_ids, component_storages |-> component_storages]

Bounded(c) ==
    /\ steps < MaxSteps
    /\ c.counter <= MaxCounter
    /\ Len(c.systems) <= MaxSystems

Install(c) ==
    /\ Bounded(c)
    /\ steps' = steps + 1
    /\ systems' = c.systems
    /\ entities' = c.entities
    /\ counter' = c.counter
    /\ dead_ids' = c.dead_ids
    /\ component_storages' = c.component_storages
    /\ UNCHANGED probe

\* op: the method called; ret: the id add_entity returned; err: the exception
\* raised ("none" if the call returned); calls: the workflow invocations made,
\* in order; ran: the systems whose update() was called, in order
Call(op, ret, err, calls, ran) ==
    [op |-> op, ret |-> ret, err |-> err, calls |-> calls, ran |-> ran]

\* op: the function called; mask_rules, signature: its arguments; ret: the
\* boolean it returned
Probe(op, mask_rules, signature, ret) ==
    [op |-> op, mask_rules |-> mask_rules, signature |-> signature, ret |-> ret]

\* a new Coordinator, nothing called yet
Fresh ==
    /\ systems = Coordinator_init.systems
    /\ entities = Coordinator_init.entities
    /\ counter = Coordinator_init.counter
    /\ dead_ids = Coordinator_init.dead_ids
    /\ component_storages = Coordinator_init.component_storages
    /\ entity = NoID
    /\ last = Call("init", NoID, "none", <<>>, <<>>)
    /\ issued = {}
    /\ script = 0
    /\ steps = 0

Init ==
    /\ Fresh
    /\ probe = Probe("none", <<>>, {}, TRUE)

\* the position in __main__ after this call, when the calls so far are
\* exactly the calls of __main__ up to it
ScriptStep(from, cond) == IF script = from /\ cond THEN from + 1 ELSE -1

\* ---------------------------------------------------------------- actions
AddSystem(system) ==
    /\ Install(Coordinator_add_system(Coord, system))
    /\ last' = Call("add_system", NoID, "none", <<>>, <<>>)
    /\ script' = IF script = 0 THEN ScriptStep(0, system = num_to_char_system)
                 ELSE ScriptStep(1, system = char_to_ascii_system)
    /\ UNCHANGED <<entity, issued>>

\* entity = coordinator.add_entity(): the caller keeps the result in the
\* module-level variable `entity`
AddEntity ==
    LET r == Coordinator_add_entity(Coord)
    IN /\ Install(r.c)
       /\ entity' = r.ret
       /\ last' = Call("add_entity", r.ret, "none", <<>>, <<>>)
       /\ issued' = issued \cup {r.ret}
       /\ script' = ScriptStep(2, TRUE)

RemoveEntity(entity_id) ==
    LET r == Coordinator_remove_entity(Coord, entity_id)
    IN /\ Install(r.c)
       /\ last' = Call("remove_entity", NoID, r.err, <<>>, <<>>)
       /\ issued' = issued \ {entity_id}
       /\ script' = -1
       /\ UNCHANGED entity

AddComponent(entity_id, component) ==
    LET r == Coordinator_add_component(Coord, entity_id, component)
    IN /\ Install(r.c)
       /\ last' = Call("add_component", NoID, r.err, <<>>, <<>>)
       /\ script' = ScriptStep(3, entity_id = entity /\ component = Component("number", 3))
       /\ UNCHANGED <<entity, issued>>

GetComponents(entity_id, comp_type) ==
    LET r == Coordinator_get_components(Coord, entity_id, comp_type)
    IN /\ Install(r.c)
       /\ last' = Call("get_components", NoID, r.err, <<>>, <<>>)
       /\ script' = -1
       /\ UNCHANGED <<entity, issued>>

GetEntitySignature(entity_id) ==
    LET r == Coordinator_get_entity_signature(Coord, entity_id)
    IN /\ steps < MaxSteps
       /\ steps' = steps + 1
       /\ last' = Call("get_entity_signature", NoID, r.err, <<>>, <<>>)
       /\ script' = -1
       /\ UNCHANGED <<systems, entities, counter, dead_ids, component_storages,
                      entity, issued, probe>>

\* a direct call of systems[i].update()
SystemUpdate(i) ==
    LET r == OnChangeSystem_update(Coord, i, entity)
    IN /\ Install(r.c)
       /\ last' = Call("system_update", NoID, r.err, r.calls, <<i>>)
       /\ script' = -1
       /\ UNCHANGED <<entity, issued>>

Update ==
    LET r == Coordinator_update(Coord, entity)
    IN /\ Install(r.c)
       /\ last' = Call("update", NoID, r.err, r.calls, r.ran)
       /\ script' = IF script \in 4 .. 6 THEN script + 1 ELSE -1
       /\ UNCHANGED <<entity, issued>>

Next ==
    \/ \E system \in SystemInputs : AddSystem(system)
    \/ AddEntity
    \/ \E entity_id \in EntityIDs : RemoveEntity(entity_id)
    \/ \E entity_id \in EntityIDs, component \in CallerComponents :
          AddComponent(entity_id, component)
    \/ \E entity_id \in EntityIDs, comp_type \in ComponentTypes :
          GetComponents(entity_id, comp_type)
    \/ \E entity_id \in EntityIDs : GetEntitySignature(entity_id)
    \/ \E i \in DOMAIN systems : SystemUpdate(i)
    \/ Update

Spec == Init /\ [][Next]_vars

\* ------------------------------------------------- rules and masks alone
Signatures == SUBSET ComponentTypes

\* the rules the three constructors return for every tag set
RuleInputs ==
    {create_min_rule(args) : args \in SUBSET ComponentTypes}
    \cup {create_bl_rule(args) : args \in SUBSET ComponentTypes}
    \cup {create_wl_rule(args) : args \in SUBSET ComponentTypes}

\* the rule lists of at most MaxRules rules
MaskInputs == UNION {[1 .. n -> RuleInputs] : n \in 0 .. MaxRules}

\* the arguments are chosen before the call
InitMask ==
    /\ Fresh
    /\ probe \in {Probe("args", rules, signature, TRUE) :
                     rules \in MaskInputs, signature \in Signatures}

\* rule.allows(signature), for a single rule
RuleAllows ==
    /\ probe.op = "args"
    /\ Len(probe.mask_rules) = 1
    /\ probe' = [probe EXCEPT !.op = "allows",
                              !.ret = allows(probe.mask_rules[1], probe.signature)]
    /\ UNCHANGED <<systems, entities, counter, dead_ids, component_storages,
                   entity, last, issued, script, steps>>

\* build_signature_mask(rules).contains(signature)
MaskContains ==
    /\ probe.op = "args"
    /\ probe' = [probe EXCEPT !.op = "contains",
                              !.mask_rules = build_signature_mask(@),
                              !.ret = contains(build_signature_mask(probe.mask_rules),
                                               probe.signature)]
    /\ UNCHANGED <<systems, entities, counter, dead_ids, component_storages,
                   entity, last, issued, script, steps>>

NextMask == RuleAllows \/ MaskContains

SpecMask == InitMask /\ [][NextMask]_vars

\* ------------------------------------------------------- derived notions
Live == DOMAIN entities

\* the type tags whose storage has an entry for entity_id
StoredTypes(entity_id) ==
    {component_storages[k].comp_type : k \in
        {j \in DOMAIN component_storages :
            entity_id \in DOMAIN component_storages[j].database}}

\* the ids that have an entry in some storage
StoredIDs ==
    UNION {DOMAIN component_storages[k].database : k \in DOMAIN component_storages}

Matches(i, entity_id) ==
    /\ entity_id \in Live
    /\ contains(systems[i].signature_mask, entities[entity_id])

\* ------------------------------------------------------------------ C1
\* C1: entity ids are unique among live entities: add_entity never returns an
\* id that is live at the time of the call, and no live id is in the
\* generator's dead pool.
C1_UniqueLiveIds ==
    [][/\ AddEntity => last'.ret \notin Live
       /\ \A x \in Live' : x \notin RangeOf(dead_ids')]_vars

\* ------------------------------------------------------------------ C2
\* C2: for every live entity the cached signature is exactly the set of type
\* tags whose storage has an entry for it, and no storage has an entry for an
\* id that is not live.
C2_SignatureMirrorsStorage ==
    /\ \A e \in Live : entities[e] = StoredTypes(e)
    /\ StoredIDs \subseteq Live

\* ------------------------------------------------------------------ C3
CallsBy(calls, i) == Cardinality({k \in DOMAIN calls : calls[k][1] = i})

\* C3: one call of OnChangeSystem.update() invokes the workflow at most once,
\* whether it is called directly or from Coordinator.update(), whatever the
\* queue holds and also when the workflow re-enqueues entities in that system.
C3_AtMostOneWorkflowCall ==
    last.op \in {"system_update", "update"} =>
        \A i \in DOMAIN systems : CallsBy(last.calls, i) <= 1

\* a direct update() has invoked the workflow once and returned although its
\* queue, which the workflow has appended to, still holds two matching entries
C3_Witness ==
    /\ last.op = "system_update"
    /\ last.err = "none"
    /\ \E i \in DOMAIN systems :
          /\ last.calls = <<<<i, entity>>>>
          /\ Len(systems[i].que) >= 2
          /\ \A k \in DOMAIN systems[i].que : Matches(i, systems[i].que[k])
          /\ systems[i].que[Len(systems[i].que)] = entity

\* ------------------------------------------------------------------ C4
\* C4: a queue entry whose entity has been destroyed with remove_entity is
\* skipped when it is dequeued: update() completes without an error, does not
\* invoke the workflow for that id and does not re-enqueue it.
C4_RemovedEntitySkipped ==
    [][\A i \in DOMAIN systems :
          (/\ SystemUpdate(i)
           /\ systems[i].que # <<>>
           /\ Head(systems[i].que) \notin Live)
          => /\ last'.err = "none"
             /\ \A k \in DOMAIN last'.calls :
                   last'.calls[k][2] # Head(systems[i].que)
             /\ Count(systems'[i].que, Head(systems[i].que))
                   <= Count(Tail(systems[i].que), Head(systems[i].que))]_vars

\* ------------------------------------------------------------------ C5
\* the position of the first entry of que that system i would process, 0 if
\* there is none
FirstMatch(i, que) ==
    IF \E k \in DOMAIN que : Matches(i, que[k])
    THEN CHOOSE k \in DOMAIN que :
            Matches(i, que[k]) /\ \A j \in 1 .. (k - 1) : ~Matches(i, que[j])
    ELSE 0

\* C5: when the entry at the front of a queue is a live entity whose signature
\* no longer satisfies the mask, update() discards it (the workflow is not
\* invoked for it, the entry is not put back) and goes on with the entries
\* behind it until it finds a matching one, which it processes, or the queue
\* is empty.
C5_ChangedEntityDiscarded ==
    \A i \in DOMAIN systems :
       LET que == systems[i].que
           u == OnChangeSystem_update(Coord, i, entity)
           m == FirstMatch(i, que)
       IN (que # <<>> /\ Head(que) \in Live /\ ~Matches(i, Head(que)))
          => /\ \A k \in DOMAIN u.calls : u.calls[k][2] # Head(que)
             /\ Count(u.c.systems[i].que, Head(que)) <= Count(Tail(que), Head(que))
             /\ IF m # 0 THEN u.calls = <<<<i, que[m]>>>>
                ELSE u.calls = <<>> /\ u.c.systems[i].que = <<>> /\ u.err = "none"

\* ------------------------------------------------------------------ C6
\* the payloads of the components of one type stored for an entity
DataOf(entity_id, comp_type) ==
    IF comp_type \in StoredTypes(entity_id)
    THEN LET l == component_storages[StorageIndex(component_storages, comp_type)]
                     .database[entity_id]
         IN [k \in DOMAIN l |-> l[k].data]
    ELSE <<>>

HasExactly(entity_id, types) ==
    /\ entity_id \in Live
    /\ entities[entity_id] = types
    /\ \A t \in ComponentTypes : (DataOf(entity_id, t) # <<>>) <=> (t \in types)

\* C6 as stated: in the __main__ scenario the entity has number and char but
\* no ascii after the first update(), all three after the second, and the
\* third changes nothing.
C6_ScenarioAsStated ==
    /\ script = 5 => HasExactly(entity, {"number", "char"})
    /\ script \in {6, 7} => HasExactly(entity, {"number", "char", "ascii"})

\* C6 as amended: in the __main__ scenario the first update() already leaves
\* the entity with number=3, char="3" and ascii=51, because char_to_ascii runs
\* after num_to_char in the same update(); the second and the third update()
\* change nothing.
C6_ScenarioCascades ==
    script \in {5, 6, 7} =>
        /\ HasExactly(entity, {"number", "char", "ascii"})
        /\ DataOf(entity, "number") = <<3>>
        /\ DataOf(entity, "char") = <<"3">>
        /\ DataOf(entity, "ascii") = <<51>>
        /\ \A i \in DOMAIN systems : systems[i].que = <<>>
        /\ last.err = "none"
        /\ last.calls = IF script = 5 THEN <<<<1, entity>>, <<2, entity>>>> ELSE <<>>

\* the scenario has run to the end of its third update()
C6_Witness == script = 7 /\ last.op = "update" /\ Live = {entity}

\* ------------------------------------------------------------------ C7
\* C7: in one Coordinator.update() every registered system's update() runs
\* exactly once, in registration order; and when the workflow of system a
\* attaches to an entity a component that makes it match the mask of system
\* b, whose queue holds no other matching entry, then b processes that
\* entity in the same update() if b was registered after a, and not in this
\* update() if b was registered before a.
C7_CascadeAndDeferral ==
    [][Update =>
        /\ last'.ran = [k \in 1 .. Len(systems) |-> k]
        /\ \A a \in DOMAIN systems, b \in DOMAIN systems :
              (/\ a # b
               /\ <<a, entity>> \in RangeOf(last'.calls)
               /\ entity \in Live
               /\ \A k \in DOMAIN systems[b].que : ~Matches(b, systems[b].que[k])
               /\ ~Matches(b, entity)
               /\ contains(systems[b].signature_mask,
                           entities[entity] \cup {WorkflowTarget(systems[a].workflow)}))
              => IF b > a
                 THEN <<b, entity>> \in RangeOf(last'.calls)
                 ELSE <<b, entity>> \notin RangeOf(last'.calls)]_vars

\* ------------------------------------------------------------------ C8
\* C8: id recycling is FIFO. get() returns the oldest id of the recycle queue
\* and removes it when the queue is non-empty, and otherwise returns the
\* counter and advances it by one; remove_entity puts its id at the back of
\* the queue, and no other call touches the generator. So an id removed while
\* the queue is empty is the next one issued, and ids removed in the order
\* a, b are reissued in the order a, b.
C8_RecyclingIsFIFO ==
    [][/\ AddEntity =>
            IF dead_ids # <<>>
            THEN /\ last'.ret = Head(dead_ids)
                 /\ dead_ids' = Tail(dead_ids)
                 /\ counter' = counter
            ELSE /\ last'.ret = counter
                 /\ dead_ids' = dead_ids
                 /\ counter' = counter + 1
       /\ \A entity_id \in EntityIDs :
            RemoveEntity(entity_id) =>
                /\ dead_ids' = dead_ids \o <<entity_id>>
                /\ counter' = counter
       /\ last'.op \notin {"add_entity", "remove_entity"} =>
            /\ dead_ids' = dead_ids
            /\ counter' = counter]_vars

\* ids 0 and 1 were removed in that order and 0 has been reissued first
C8_Witness ==
    /\ last.op = "add_entity"
    /\ last.ret = 0
    /\ counter = 2
    /\ dead_ids = <<1>>
    /\ Live = {0}

\* ------------------------------------------------------------------ C9
\* C9: an id returned by get() is not returned by a later get() unless
\* add_dead was called with it in between (issued holds the ids returned by
\* get() and not passed to add_dead since).
C9_NoReissueWithoutAddDead ==
    [][AddEntity => last'.ret \notin issued]_vars

\* ----------------------------------------------------------------- C10
\* C10: remove_entity(id) on a live entity, whatever component types it has,
\* completes and leaves id in the dead pool exactly once, no entry for id in
\* any storage, and no signature entry for id.
C10_RemoveEntityPurges ==
    [][\A entity_id \in EntityIDs :
          (RemoveEntity(entity_id) /\ entity_id \in Live)
          => /\ last'.err = "none"
             /\ Count(dead_ids', entity_id) = 1
             /\ entity_id \notin StoredIDs'
             /\ entity_id \notin Live']_vars

\* ----------------------------------------------------------------- C11
\* C11: get_components(id, type_tag) fails with NotFound (KeyError) both when
\* there is no storage for type_tag and when the storage has no entry for the
\* entity; it never returns an empty default list.
C11_GetComponentsNotFound ==
    [][\A entity_id \in EntityIDs, comp_type \in ComponentTypes :
          (/\ GetComponents(entity_id, comp_type)
           /\ comp_type \notin StoredTypes(entity_id))
          => last'.err = "KeyError"]_vars

\* ----------------------------------------------------------------- C12
\* C12: add_component(id, c) on a live entity appends c to the storage of c's
\* type and adds the tag to the signature, and each system then appends id to
\* the back of its queue if and only if the updated signature satisfies its
\* mask, and otherwise leaves its queue unchanged.
C12_AddComponentNotifies ==
    [][\A entity_id \in EntityIDs, component \in CallerComponents :
          (AddComponent(entity_id, component) /\ entity_id \in Live)
          => /\ last'.err = "none"
             /\ DataOf(entity_id, component.comp_type)' =
                   Append(DataOf(entity_id, component.comp_type), component.data)
             /\ entities' =
                   [entities EXCEPT ![entity_id] = @ \cup {component.comp_type}]
             /\ Len(systems') = Len(systems)
             /\ \A i \in DOMAIN systems :
                   systems'[i].que =
                      IF contains(systems[i].signature_mask,
                                  entities[entity_id] \cup {component.comp_type})
                      THEN Append(systems[i].que, entity_id)
                      ELSE systems[i].que]_vars

\* an add_component has put the entity into one queue for the second time and
\* has left the queue of a system whose mask the new signature fails empty
C12_Witness ==
    /\ last.op = "add_component"
    /\ last.err = "none"
    /\ \E e \in Live, i \in DOMAIN systems, j \in DOMAIN systems :
          /\ systems[i].que = <<e, e>>
          /\ Matches(i, e)
          /\ systems[j].que = <<>>
          /\ ~Matches(j, e)

\* ----------------------------------------------------------------- C16
\* C16: a remove_entity that fails with an error leaves the dead pool, every
\* component storage and the entity table as they were.
C16_FailedRemoveChangesNothing ==
    [][\A entity_id \in EntityIDs :
          (RemoveEntity(entity_id) /\ last'.err # "none")
          => UNCHANGED <<dead_ids, component_storages, entities>>]_vars

\* ----------------------------------------------------------------- C17
\* C17: add_component with an id that is not live fails with an error and
\* changes nothing (no storage created, no entry added, no system notified);
\* hence the id add_entity returns has no entry in any storage.
C17_AddComponentToDeadChangesNothing ==
    [][/\ \A entity_id \in EntityIDs, component \in CallerComponents :
            (AddComponent(entity_id, component) /\ entity_id \notin Live)
            => /\ last'.err # "none"
               /\ UNCHANGED <<component_storages, entities, systems,
                              counter, dead_ids>>
       /\ AddEntity => last'.ret \notin StoredIDs']_vars

\* ----------------------------------------------------------------- C19
\* C19: get_components and get_entity_signature, whether they succeed or
\* fail, leave every storage (its entity keys included), every signature,
\* the id generator and every system queue unchanged.
C19_QueriesAreReadOnly ==
    [][\A entity_id \in EntityIDs :
          (\/ GetEntitySignature(entity_id)
           \/ \E comp_type \in ComponentTypes :
                 GetComponents(entity_id, comp_type))
          => UNCHANGED <<component_storages, entities, counter, dead_ids,
                         systems>>]_vars

\* ----------------------------------------------------------------- C15
\* C15: OnChangeSystem.update() consumes its queue in FIFO order: it removes
\* the entries up to and including the first one whose entity currently
\* satisfies the mask, invokes the workflow exactly once with that id and
\* leaves the entries behind it in their order; if no entry matches, the
\* queue ends empty and the workflow is not invoked; if the queue is empty at
\* the start nothing changes.
C15_UpdateConsumesFIFO ==
    \A i \in DOMAIN systems :
       LET que == systems[i].que
           u == OnChangeSystem_update(Coord, i, entity)
           after == u.c.systems[i].que
           m == FirstMatch(i, que)
       IN /\ m # 0 =>
               /\ u.calls = <<<<i, que[m]>>>>
               /\ Len(after) >= Len(que) - m
               /\ SubSeq(after, 1, Len(que) - m) = SubSeq(que, m + 1, Len(que))
          /\ m = 0 => u.calls = <<>> /\ after = <<>>
          /\ que = <<>> => u.c = Coord /\ u.err = "none"

\* ----------------------------------------------------------------- C18
\* C18: queue entries do not outlive their entity: an entry enqueued for a
\* destroyed entity never causes a workflow invocation on the entity that
\* got its id afterwards, so the invocations for a live entity are at most
\* the add_component calls made on it since it was created.  An entity whose
\* signature is empty has had no add_component call since it was created, so
\* no update() invokes the workflow for it.
C18_NoInvocationBeforeAttach ==
    \A i \in DOMAIN systems :
       LET u == OnChangeSystem_update(Coord, i, entity)
       IN \A k \in DOMAIN u.calls :
             u.calls[k][2] \in Live => entities[u.calls[k][2]] # {}

\* ----------------------------------------------------------------- C13
\* C13: for every rule tag set T and signature S the constructors agree with
\* their set-theoretic reference: the min rule allows S iff T is a subset of
\* S, the blacklist rule iff T and S are disjoint, the whitelist rule iff S
\* is a subset of T.
C13_RulesMatchReference ==
    probe.op = "allows" =>
        LET rule == probe.mask_rules[1]
            T == rule.arg_set
            S == probe.signature
        IN /\ rule.kind = "min" => (probe.ret <=> T \subseteq S)
           /\ rule.kind = "bl" => (probe.ret <=> T \cap S = {})
           /\ rule.kind = "wl" => (probe.ret <=> S \subseteq T)

\* whitelist(number, char) has rejected {number, ascii}
C13_Witness ==
    /\ probe.op = "allows"
    /\ probe.mask_rules = <<create_wl_rule({"number", "char"})>>
    /\ probe.signature = {"number", "ascii"}
    /\ probe.ret = FALSE

\* ----------------------------------------------------------------- C14
\* the orders in which n rules can be listed
Orders(n) ==
    {f \in [1 .. n -> 1 .. n] : \A a \in 1 .. n : \E b \in 1 .. n : f[b] = a}

\* C14: contains(S) is true iff every rule of the mask allows S (an empty
\* rule list accepts every signature), and every permutation of the rule
\* list gives the same result.
C14_ContainsIsConjunction ==
    probe.op = "contains" =>
        /\ probe.ret <=> \A k \in DOMAIN probe.mask_rules :
                            allows(probe.mask_rules[k], probe.signature)
        /\ \A f \in Orders(Len(probe.mask_rules)) :
              contains([k \in DOMAIN probe.mask_rules |-> probe.mask_rules[f[k]]],
                       probe.signature) = probe.ret

\* required(number) AND blacklist(char) has rejected {number, char}, whose
\* first rule allows it
C14_Witness ==
    /\ probe.op = "contains"
    /\ probe.mask_rules = <<create_min_rule({"number"}), create_bl_rule({"char"})>>
    /\ probe.signature = {"number", "char"}
    /\ probe.ret = FALSE

\* ----------------------------------------------------------------- C20
\* the components held by the storages: <<type, entity id, list>> for every
\* non-empty list
Components(cs) ==
    UNION {{<<cs[k].comp_type, e, cs[k].database[e]>> :
               e \in {x \in DOMAIN cs[k].database : cs[k].database[x] # <<>>}} :
           k \in DOMAIN cs}

\* the next Coordinator.update() on c would attach a component
WouldAttach(c) ==
    Components(Coordinator_update(c, entity).c.component_storages)
        # Components(c.component_storages)

AllQueuesEmpty(c) == \A i \in DOMAIN c.systems : c.systems[i].que = <<>>

RECURSIVE QueuedFrom(_, _)
QueuedFrom(c, i) ==
    IF i > Len(c.systems) THEN 0
    ELSE Len(c.systems[i].que) + QueuedFrom(c, i + 1)

\* the number of queue entries of all systems
TotalQueued(c) == QueuedFrom(c, 1)

\* the caller's loop: up to n more Coordinator.update() calls and nothing
\* else, until the queues are empty or an update would attach a component
RECURSIVE Drain(_, _)
Drain(c, n) ==
    IF n = 0 \/ AllQueuesEmpty(c) \/ WouldAttach(c) THEN c
    ELSE Drain(Coordinator_update(c, entity).c, n - 1)

\* C20: queues drain: an OnChangeSystem.update() that starts with a non-empty
\* queue and attaches no component removes at least one entry; so, while no
\* entity is removed and no component is attached, finitely many
\* Coordinator.update() calls (at most as many as there are queue entries)
\* leave every queue empty, and update() calls after that change nothing.
C20_QueuesDrain ==
    /\ \A i \in DOMAIN systems :
          LET u == OnChangeSystem_update(Coord, i, entity)
          IN (/\ systems[i].que # <<>>
              /\ Components(u.c.component_storages) = Components(component_storages))
             => Len(u.c.systems[i].que) < Len(systems[i].que)
    /\ LET d == Drain(Coord, TotalQueued(Coord))
       IN /\ AllQueuesEmpty(d) \/ WouldAttach(d)
          /\ AllQueuesEmpty(d) => Coordinator_update(d, entity).c = d

\* an update() that attached nothing has raised on the id of a removed
\* entity, and two more update() calls are needed to empty the queues
C20_Witness ==
    /\ last.op = "update"
    /\ last.err = "KeyError"
    /\ last.calls = <<>>
    /\ ~WouldAttach(Coord)
    /\ ~AllQueuesEmpty(Coordinator_update(Coord, entity).c)
    /\ ~WouldAttach(Coordinator_update(Coord, entity).c)
    /\ AllQueuesEmpty(Drain(Coord, 2))

====
